---- MODULE Spec2Model ----
(***************************************************************************)
(* Model of mini-grep's Command pipeline (src/src/mini_grep/command.rs,    *)
(* src/src/mini_grep/errors.rs) driven as in the module documentation of   *)
(* src/src/mini_grep.rs:                                                   *)
(*     Command::try_from(args())                                           *)
(*         .unwrap_or_else(|error| { eprintln!(..); exit(error.code()) })  *)
(*         .execute()                                                      *)
(*                                                                         *)
(* A Rust String is a sequence of one-character strings, so that trim()    *)
(* is computed and not assumed.  The path named by the filename argument   *)
(* is one filesystem node; every std::fs call of Command::build is one     *)
(* step, and another process may change the node between two calls.        *)
(***************************************************************************)
EXTENDS Integers, Sequences, FiniteSets, TLC

\* ------------------------------------------------------------------ bounds
MaxLen == 2          \* longest pattern
MaxArgs == 4         \* longest argument list
MaxFsChanges == 1    \* changes other processes make to the node during build
MaxLines == 2        \* longest file, in lines
MaxSearches == 2     \* direct calls of search on one Command
MaxReadErrors == 2   \* diagnostics kept of a read that fails for ever

\* ----------------------------------------------------------------- strings
Whitespace == {" ", "\t"}
Chars == Whitespace \cup {"r", "R"}

StringsUpTo(n) == UNION {[1..k -> Chars] : k \in 0..n}

Patterns == StringsUpTo(MaxLen)
Executables == {<<"m", "g">>, <<"g">>}
Filenames == {<<"f">>, <<"d", "f">>}
Extras == {<<"x">>}

\* str::trim_start / str::trim_end / str::trim
RECURSIVE trim_start(_)
trim_start(s) ==
    IF s = <<>> THEN <<>>
    ELSE IF Head(s) \in Whitespace THEN trim_start(Tail(s))
    ELSE s

RECURSIVE trim_end(_)
trim_end(s) ==
    IF s = <<>> THEN <<>>
    ELSE IF s[Len(s)] \in Whitespace THEN trim_end(SubSeq(s, 1, Len(s) - 1))
    ELSE s

trim(s) == trim_end(trim_start(s))

is_empty(s) == Len(s) = 0

\* -------------------------------------------------------------- filesystem
\* kind "absent": the metadata of the path cannot be read (nothing there, a
\* broken symbolic link, ...); "other": a socket, a fifo, a device.
NodeKinds == {"absent", "file", "dir", "other"}

AbsentNode == [kind |-> "absent", readable |-> FALSE, resolvable |-> FALSE, utf8 |-> FALSE]

Nodes ==
    {AbsentNode} \cup
    {n \in [kind : NodeKinds \ {"absent"}, readable : BOOLEAN,
            resolvable : BOOLEAN, utf8 : BOOLEAN] : n.resolvable \/ n.utf8}

\* Path::is_file, Path::exists, Path::is_dir: all follow the path to its node
is_file(n) == n.kind = "file"
exists_always(n) == TRUE
exists(n) == n.kind # "absent"
is_dir(n) == n.kind = "dir"

\* Path::canonicalize: the absolute form of the path, or an io::Error
AbsolutePath(filename) == <<"/">> \o filename

canonicalize_infallible(n, filename) ==
    [ok |-> TRUE, path |-> AbsolutePath(filename), utf8 |-> n.utf8]

canonicalize(n, filename) ==
    IF exists(n) /\ n.resolvable
    THEN [ok |-> TRUE, path |-> AbsolutePath(filename), utf8 |-> n.utf8]
    ELSE [ok |-> FALSE, cause |-> IF exists(n) THEN "Other" ELSE "NotFound"]

\* File::open: the outcomes the node allows.  A node that is neither a
\* regular file nor a directory may or may not accept a read-only open.
OpenOutcomes(n) ==
    IF ~exists(n) THEN {"NotFound"}
    ELSE IF ~n.readable THEN {"PermissionDenied"}
    ELSE IF n.kind = "other" THEN {"ok", "Other"}
    ELSE {"ok"}

\* ------------------------------------------------------------- file content
\* What BufReader::lines() yields for one line: Ok(text), or Err(error) for a
\* line that is not valid UTF-8 (the reader then goes on with the next line).
LineTexts == {<<"R">>, <<" ", "r", "R">>}
OkLine(text) == [error |-> "", text |-> text]
ErrLine(error) == [error |-> error, text |-> <<>>]
Lines == {OkLine(t) : t \in LineTexts} \cup {ErrLine("InvalidData")}
Contents == UNION {[1..k -> Lines] : k \in 0..MaxLines}

\* str::contains(&String)
contains_prefix_only(line, pat) ==
    Len(pat) <= Len(line) /\ SubSeq(line, 1, Len(pat)) = pat

contains(line, pat) ==
    \E i \in 0..(Len(line) - Len(pat)) : SubSeq(line, i + 1, i + Len(pat)) = pat

\* line.unwrap_or_else(|error| { eprintln!(..); String::default() })
unwrap_or_else(line) == IF line.error = "" THEN line.text ELSE <<>>

\* the eprintln! of the closure given to unwrap_or_else in search
ReadDiagnostic_zero_based(line_no, filename, error) ==
    <<"Cannot read the line ", line_no, " from the file '", filename,
      "', due to this error ", error, ".">>

ReadDiagnostic(line_no, filename, error) ==
    <<"Cannot read the line ", line_no + 1, " from the file '", filename,
      "', due to this error ", error, ".">>

\* .enumerate().filter_map(..).collect() of Command::search over the lines the
\* reader yields; i is line_no + 1
RECURSIVE filter_map_from_zero(_, _, _)
filter_map_from_zero(lines, i, pat) ==
    IF i > Len(lines) THEN <<>>
    ELSE LET line == unwrap_or_else(lines[i])
         IN  (IF contains(line, pat) THEN << <<i - 1, line>> >> ELSE <<>>)
             \o filter_map_from_zero(lines, i + 1, pat)

RECURSIVE filter_map(_, _, _)
filter_map(lines, i, pat) ==
    IF i > Len(lines) THEN <<>>
    ELSE LET line == unwrap_or_else(lines[i])
         IN  (IF contains(line, pat) THEN << <<i, line>> >> ELSE <<>>)
             \o filter_map(lines, i + 1, pat)

\* the diagnostics the same scan writes, in order
RECURSIVE diagnostics(_, _, _)
diagnostics(lines, i, filename) ==
    IF i > Len(lines) THEN <<>>
    ELSE (IF lines[i].error # ""
          THEN <<ReadDiagnostic(i - 1, filename, lines[i].error)>> ELSE <<>>)
         \o diagnostics(lines, i + 1, filename)

\* BufReader::new(&self.file).lines(): the lines from the position of the
\* open file on; the reader shares this position with the handle
lines(file_content, position) == SubSeq(file_content, position + 1, Len(file_content))

\* Command::search
search(command, file_content, position) ==
    filter_map(lines(file_content, position), 1, command.pattern)

\* the println! calls of Command::execute
print(command, found_lines) ==
    IF found_lines = <<>>
    THEN << <<"The file '", command.filename,
              "' does not contain any line with the pattern '", command.pattern, "'.">> >>
    ELSE << <<"The file '", command.filename,
              "' contains these lines with the pattern '", command.pattern, "':">> >>
         \o [k \in 1..Len(found_lines) |->
                <<found_lines[k][1], ": ", found_lines[k][2]>>]

\* ------------------------------------------------------------------ errors
Missing(executable) ==
    [type |-> "InvalidSyntaxError", variant |-> "Missing",
     text |-> executable, detail |-> ""]
TooMany(executable) ==
    [type |-> "InvalidSyntaxError", variant |-> "TooMany",
     text |-> executable, detail |-> ""]

BlankPattern(pattern) ==
    [type |-> "InvalidArgumentError", variant |-> "BlankPattern",
     text |-> pattern, detail |-> ""]
NotAFile(path, file_type) ==
    [type |-> "InvalidArgumentError", variant |-> "NotAFile",
     text |-> path, detail |-> file_type]
FileNotFound(filename) ==
    [type |-> "InvalidArgumentError", variant |-> "FileNotFound",
     text |-> filename, detail |-> ""]
CannotResolvePath(filename, error) ==
    [type |-> "InvalidArgumentError", variant |-> "CannotResolvePath",
     text |-> filename, detail |-> error]
NotAReadableFile(filename, error) ==
    [type |-> "InvalidArgumentError", variant |-> "NotAReadableFile",
     text |-> filename, detail |-> error]

\* impl MiniGrepArgsError for InvalidSyntaxError
InvalidSyntaxError_code(e) ==
    CASE e.variant = "Missing" -> 126
      [] e.variant = "TooMany" -> 127

InvalidArgumentError_code_swapped(e) ==
    CASE e.variant = "BlankPattern" -> 130
      [] e.variant = "NotAFile" -> 132
      [] e.variant = "FileNotFound" -> 131
      [] e.variant = "CannotResolvePath" -> 133
      [] e.variant = "NotAReadableFile" -> 134

\* impl MiniGrepArgsError for InvalidArgumentError
InvalidArgumentError_code(e) ==
    CASE e.variant = "BlankPattern" -> 130
      [] e.variant = "NotAFile" -> 131
      [] e.variant = "FileNotFound" -> 132
      [] e.variant = "CannotResolvePath" -> 133
      [] e.variant = "NotAReadableFile" -> 134

\* dyn MiniGrepArgsError::code
code(e) ==
    IF e.type = "InvalidSyntaxError" THEN InvalidSyntaxError_code(e)
    ELSE InvalidArgumentError_code(e)

\* impl Display for InvalidSyntaxError: the pieces of the message, in order
InvalidSyntaxError_fmt(e) ==
    LET quantity_args == IF e.variant = "Missing" THEN "Missing" ELSE "Too many"
    IN  <<quantity_args, " arguments. Call the script like: ", e.text,
          " pattern filename">>

\* impl Display for InvalidArgumentError
InvalidArgumentError_fmt(e) ==
    CASE e.variant = "BlankPattern" ->
            <<"Cannot have a blank searched text '", e.text, "'.">>
      [] e.variant = "NotAFile" ->
            <<"'", e.text, "' is not a file, it is a ", e.detail, ".">>
      [] e.variant = "FileNotFound" ->
            <<"The file '", e.text, "' does not exist.">>
      [] e.variant = "CannotResolvePath" ->
            <<"Cannot resolve the path ('", e.text,
              "') to the absolute path, due to this error ", e.detail, ".">>
      [] e.variant = "NotAReadableFile" ->
            <<"Cannot open the file '", e.text, "', due to this error ",
              e.detail, ".">>

fmt(e) ==
    IF e.type = "InvalidSyntaxError" THEN InvalidSyntaxError_fmt(e)
    ELSE InvalidArgumentError_fmt(e)

\* ----------------------------------------------------------------- results
NoResult == [tag |-> "None"]
Ok(command) == [tag |-> "Ok", command |-> command]
Err(error) == [tag |-> "Err", error |-> error]
Panic(msg) == [tag |-> "Panic", msg |-> msg]

\* struct Command
Command(pattern, filename, file) ==
    [pattern |-> pattern, filename |-> filename, file |-> file]

\* ------------------------------------------------------------------- state
VARIABLES
    args,            \* the argument list given to Command::try_from_iter
    ignore_case,     \* the variable IGNORE_CASE of the environment of the process
    node,            \* the filesystem node the filename argument names
    pc,              \* position of the pipeline
    absolute_path,   \* build's local: the result of canonicalize
    calls,           \* the std::fs calls made so far, in order
    result,          \* what Command::try_from_iter returned
    stderr,          \* lines written to the error stream
    exit_code,       \* the process exit code, -1 while running
    fsChanges,       \* changes made to the node by other processes
    content,         \* the lines of the file behind the open handle
    cursor,          \* lines already consumed through the open handle
    found,           \* the results of the calls of search, in call order
    stdout,          \* lines written to standard output
    open_files,      \* the File values alive: handles the process holds open
    main_run         \* what a run of fn main() on the same inputs ended with

vars == <<args, ignore_case, node, pc, absolute_path, calls, result, stderr, exit_code, fsChanges,
          content, cursor, found, stdout, open_files, main_run>>

io == <<content, cursor, found, stdout, open_files>>

\* no run of fn main() was made before this one
NoRun == [done |-> FALSE]

\* the lines a handle opened on the node gives access to: a directory has
\* none, every read of it fails; a file that a run of main has read before
\* still holds the same lines
OpenedContents(n) ==
    IF n.kind = "dir" THEN {<<>>}
    ELSE IF main_run.done /\ main_run.result.tag = "Executed" THEN {main_run.content}
    ELSE Contents

\* std::env::var("IGNORE_CASE") as the tests set it: not given, or a value
EnvValues ==
    {[present |-> FALSE, value |-> <<>>]} \cup
    {[present |-> TRUE, value |-> v] : v \in {<<"T", "r", "U", "e">>, <<"0">>}}

ArgLists ==
    {<<>>} \cup
    {<<e>> : e \in Executables} \cup
    {<<e, p>> : e \in Executables, p \in Patterns} \cup
    {<<e, p, f>> : e \in Executables, p \in Patterns, f \in Filenames} \cup
    UNION {{<<e, p, f>> \o x : e \in Executables, p \in Patterns, f \in Filenames,
                               x \in [1..k -> Extras]} : k \in 1..(MaxArgs - 3)}

Init ==
    /\ args \in ArgLists
    /\ ignore_case \in EnvValues
    /\ node \in Nodes
    /\ pc = "start"
    /\ absolute_path = [ok |-> FALSE, cause |-> "unset"]
    /\ calls = <<>>
    /\ result = NoResult
    /\ stderr = <<>>
    /\ exit_code = -1
    /\ fsChanges = 0
    /\ content = <<>>
    /\ cursor = 0
    /\ found = <<>>
    /\ stdout = <<>>
    /\ open_files = 0
    /\ main_run = NoRun

Return(r) ==
    /\ result' = r
    /\ pc' = "returned"

\* TryFromIter with the arity bounds off by one, and with the empty list
\* reported as an error value
TryFromIter_off_by_one ==
    /\ pc = "start"
    /\ LET amount_args == Len(args) IN
       IF amount_args # 3
       THEN IF amount_args = 0
            THEN Return(Panic("Missing the executable name."))
            ELSE LET error == IF amount_args > 4 THEN TooMany(args[1])
                              ELSE Missing(args[1])
                 IN  Return(Err(error))
       ELSE /\ pc' = "build"
            /\ UNCHANGED result
    /\ UNCHANGED <<args, ignore_case, main_run, node, absolute_path, calls, stderr, exit_code, fsChanges, io>>

TryFromIter_no_panic ==
    /\ pc = "start"
    /\ LET amount_args == Len(args) IN
       IF amount_args # 3
       THEN LET executable == IF amount_args = 0 THEN <<>> ELSE args[1]
                error == IF amount_args > 3 THEN TooMany(executable)
                         ELSE Missing(executable)
            IN  Return(Err(error))
       ELSE /\ pc' = "build"
            /\ UNCHANGED result
    /\ UNCHANGED <<args, ignore_case, main_run, node, absolute_path, calls, stderr, exit_code, fsChanges, io>>

\* TryFromIter taking the first two arguments of a longer list, as fn main()
TryFromIter_lenient ==
    /\ pc = "start"
    /\ LET amount_args == Len(args) IN
       IF amount_args < 3
       THEN IF amount_args = 0
            THEN Return(Panic("Missing the executable name."))
            ELSE Return(Err(Missing(args[1])))
       ELSE /\ pc' = "build"
            /\ UNCHANGED result
    /\ UNCHANGED <<args, ignore_case, main_run, node, absolute_path, calls, stderr, exit_code, fsChanges, io>>

\* Command::try_from_iter, up to the call of build
TryFromIter ==
    /\ pc = "start"
    /\ LET amount_args == Len(args) IN
       IF amount_args # 3
       THEN IF amount_args = 0
            THEN Return(Panic("Missing the executable name."))
            ELSE LET error == IF amount_args > 3 THEN TooMany(args[1])
                              ELSE Missing(args[1])
                 IN  Return(Err(error))
       ELSE /\ pc' = "build"
            /\ UNCHANGED result
    /\ UNCHANGED <<args, ignore_case, main_run, node, absolute_path, calls, stderr, exit_code, fsChanges, io>>

\* build's arguments: args[1], args[2] of the Rust vector
pattern == args[2]
filename == args[3]

\* BuildIsFile reporting the trimmed pattern
BuildIsFile_trimmed ==
    /\ pc = "build"
    /\ IF is_empty(trim(pattern))
       THEN /\ Return(Err(BlankPattern(trim(pattern))))
            /\ UNCHANGED calls
       ELSE /\ calls' = Append(calls, "is_file")
            /\ pc' = IF is_file(node) THEN "open" ELSE "exists"
            /\ UNCHANGED result
    /\ UNCHANGED <<args, ignore_case, main_run, node, absolute_path, stderr, exit_code, fsChanges, io>>

\* BuildIsFile looking at the path before the pattern
BuildIsFile_path_first ==
    /\ pc = "build"
    /\ IF ~is_file(node)
       THEN /\ calls' = Append(calls, "is_file")
            /\ pc' = "exists"
            /\ UNCHANGED result
       ELSE IF is_empty(trim(pattern))
       THEN /\ Return(Err(BlankPattern(pattern)))
            /\ UNCHANGED calls
       ELSE /\ calls' = Append(calls, "is_file")
            /\ pc' = "open"
            /\ UNCHANGED result
    /\ UNCHANGED <<args, ignore_case, main_run, node, absolute_path, stderr, exit_code, fsChanges, io>>

\* BuildIsFile without the blank check
BuildIsFile_no_blank_check ==
    /\ pc = "build"
    /\ calls' = Append(calls, "is_file")
    /\ pc' = IF is_file(node) THEN "open" ELSE "exists"
    /\ UNCHANGED <<args, ignore_case, main_run, node, absolute_path, result, stderr, exit_code, fsChanges, io>>

\* Command::build: the blank check, then file_path.is_file()
BuildIsFile ==
    /\ pc = "build"
    /\ IF is_empty(trim(pattern))
       THEN /\ Return(Err(BlankPattern(pattern)))
            /\ UNCHANGED calls
       ELSE /\ calls' = Append(calls, "is_file")
            /\ pc' = IF is_file(node) THEN "open" ELSE "exists"
            /\ UNCHANGED result
    /\ UNCHANGED <<args, ignore_case, main_run, node, absolute_path, stderr, exit_code, fsChanges, io>>

\* Command::build: file_path.exists()
BuildExists ==
    /\ pc = "exists"
    /\ calls' = Append(calls, "exists")
    /\ IF ~exists(node)
       THEN Return(Err(FileNotFound(filename)))
       ELSE /\ pc' = "canonicalize"
            /\ UNCHANGED result
    /\ UNCHANGED <<args, ignore_case, main_run, node, absolute_path, stderr, exit_code, fsChanges, io>>

\* Command::build: file_path.canonicalize().map_err(..)?
BuildCanonicalize ==
    /\ pc = "canonicalize"
    /\ calls' = Append(calls, "canonicalize")
    /\ LET resolved == canonicalize(node, filename) IN
       IF ~resolved.ok
       THEN /\ Return(Err(CannotResolvePath(filename, resolved.cause)))
            /\ UNCHANGED absolute_path
       ELSE /\ absolute_path' = resolved
            /\ pc' = "to_str"
            /\ UNCHANGED result
    /\ UNCHANGED <<args, ignore_case, main_run, node, stderr, exit_code, fsChanges, io>>

\* BuildNotAFile reporting the filename as given
BuildNotAFile_filename ==
    /\ pc = "to_str"
    /\ IF absolute_path.utf8
       THEN LET file_type == IF is_dir(node) THEN "directory" ELSE "unknown"
            IN  /\ calls' = Append(calls, "is_dir")
                /\ Return(Err(NotAFile(filename, file_type)))
       ELSE /\ UNCHANGED calls
            /\ Return(Panic("The absolute path conversion to its string representation fails."))
    /\ UNCHANGED <<args, ignore_case, main_run, node, absolute_path, stderr, exit_code, fsChanges, io>>

\* BuildNotAFile returning an error value for a path that is not a string
BuildNotAFile_typed_error ==
    /\ pc = "to_str"
    /\ IF absolute_path.utf8
       THEN LET file_type == IF is_dir(node) THEN "directory" ELSE "unknown"
            IN  /\ calls' = Append(calls, "is_dir")
                /\ Return(Err(NotAFile(absolute_path.path, file_type)))
       ELSE /\ UNCHANGED calls
            /\ Return(Err(CannotResolvePath(filename, "Other")))
    /\ UNCHANGED <<args, ignore_case, main_run, node, absolute_path, stderr, exit_code, fsChanges, io>>

\* Command::build: absolute_path.to_str().map(.. is_dir() ..).unwrap_or_else(panic)
BuildNotAFile ==
    /\ pc = "to_str"
    /\ IF absolute_path.utf8
       THEN LET file_type == IF is_dir(node) THEN "directory" ELSE "unknown"
            IN  /\ calls' = Append(calls, "is_dir")
                /\ Return(Err(NotAFile(absolute_path.path, file_type)))
       ELSE /\ UNCHANGED calls
            /\ Return(Panic("The absolute path conversion to its string representation fails."))
    /\ UNCHANGED <<args, ignore_case, main_run, node, absolute_path, stderr, exit_code, fsChanges, io>>

\* BuildOpen reporting a file that vanished as not found
BuildOpen_not_found ==
    /\ pc = "open"
    /\ calls' = Append(calls, "open")
    /\ \E outcome \in OpenOutcomes(node) :
         IF outcome = "ok"
         THEN /\ Return(Ok(Command(pattern, filename, [kind |-> node.kind])))
              /\ content' \in OpenedContents(node)
              /\ open_files' = open_files + 1
         ELSE IF outcome = "NotFound"
         THEN /\ Return(Err(FileNotFound(filename)))
              /\ UNCHANGED <<content, open_files>>
         ELSE /\ Return(Err(NotAReadableFile(filename, outcome)))
              /\ UNCHANGED <<content, open_files>>
    /\ UNCHANGED <<args, ignore_case, main_run, node, absolute_path, stderr, exit_code, fsChanges,
                   cursor, found, stdout>>

\* BuildOpen storing the trimmed pattern
BuildOpen_trimmed ==
    /\ pc = "open"
    /\ calls' = Append(calls, "open")
    /\ \E outcome \in OpenOutcomes(node) :
         IF outcome = "ok"
         THEN /\ Return(Ok(Command(trim(pattern), filename, [kind |-> node.kind])))
              /\ content' \in OpenedContents(node)
              /\ open_files' = open_files + 1
         ELSE /\ Return(Err(NotAReadableFile(filename, outcome)))
              /\ UNCHANGED <<content, open_files>>
    /\ UNCHANGED <<args, ignore_case, main_run, node, absolute_path, stderr, exit_code, fsChanges,
                   cursor, found, stdout>>

\* Command::build: File::open(file_path).map_err(..).map(..)
BuildOpen ==
    /\ pc = "open"
    /\ calls' = Append(calls, "open")
    /\ \E outcome \in OpenOutcomes(node) :
         IF outcome = "ok"
         THEN /\ Return(Ok(Command(pattern, filename, [kind |-> node.kind])))
              /\ content' \in OpenedContents(node)
              /\ open_files' = open_files + 1
         ELSE /\ Return(Err(NotAReadableFile(filename, outcome)))
              /\ UNCHANGED <<content, open_files>>
    /\ UNCHANGED <<args, ignore_case, main_run, node, absolute_path, stderr, exit_code, fsChanges,
                   cursor, found, stdout>>

\* ExitOnError without the eprintln!
ExitOnError_silent ==
    /\ pc = "returned"
    /\ result.tag = "Err"
    /\ exit_code' = code(result.error)
    /\ pc' = "exited"
    /\ UNCHANGED <<args, ignore_case, main_run, node, absolute_path, calls, result, stderr, fsChanges, io>>

\* unwrap_or_else(|error| { eprintln!("{error}"); process::exit(error.code()) })
ExitOnError ==
    /\ pc = "returned"
    /\ result.tag = "Err"
    /\ stderr' = Append(stderr, fmt(result.error))
    /\ exit_code' = code(result.error)
    /\ pc' = "exited"
    /\ UNCHANGED <<args, ignore_case, main_run, node, absolute_path, calls, result, fsChanges, io>>

\* a direct call of search on the Command built, as the unit tests make it
\* (tests::search_from): the reader consumes the file through the handle
Search ==
    /\ pc = "returned"
    /\ result.tag = "Ok"
    /\ result.command.file.kind # "dir"
    /\ Len(found) < MaxSearches
    /\ found' = Append(found, search(result.command, content, cursor))
    /\ stderr' = stderr \o diagnostics(lines(content, cursor), 1, result.command.filename)
    /\ cursor' = Len(content)
    /\ UNCHANGED <<args, ignore_case, main_run, node, pc, absolute_path, calls, result, exit_code, fsChanges,
                   content, stdout, open_files>>

\* Command::execute, called on the Command try_from returned
Execute ==
    /\ pc = "returned"
    /\ result.tag = "Ok"
    /\ result.command.file.kind # "dir"
    /\ LET found_lines == search(result.command, content, cursor) IN
        /\ found' = Append(found, found_lines)
        /\ stdout' = stdout \o print(result.command, found_lines)
    /\ stderr' = stderr \o diagnostics(lines(content, cursor), 1, result.command.filename)
    /\ cursor' = Len(content)
    /\ pc' = "executed"
    /\ UNCHANGED <<args, ignore_case, main_run, node, absolute_path, calls, result, exit_code, fsChanges,
                   content, open_files>>

\* search on a handle whose every read fails (a directory: EISDIR): lines()
\* yields Err again and again, the scan never ends.  One turn of the scan is
\* the read that fails, then the closure that reports it.
SearchReadError ==
    /\ pc \in {"returned", "searching"}
    /\ result.tag = "Ok"
    /\ result.command.file.kind = "dir"
    /\ pc' = "read_failed"
    /\ UNCHANGED <<args, ignore_case, main_run, node, absolute_path, calls, result, stderr, exit_code,
                   fsChanges, io>>

\* the closure on the failed read; stderr keeps the first MaxReadErrors
\* diagnostics of the endless scan
SearchReportError ==
    /\ pc = "read_failed"
    /\ stderr' = IF Len(stderr) < MaxReadErrors
                 THEN Append(stderr, ReadDiagnostic(Len(stderr), result.command.filename,
                                                    "IsADirectory"))
                 ELSE stderr
    /\ pc' = "searching"
    /\ UNCHANGED <<args, ignore_case, main_run, node, absolute_path, calls, result, exit_code, fsChanges, io>>

\* ExitOk handing the Command back for another execute
ExitOk_restart ==
    /\ pc = "executed"
    /\ pc' = "returned"
    /\ UNCHANGED <<args, ignore_case, main_run, node, absolute_path, calls, result, stderr, exit_code,
                   fsChanges, io>>

\* ExitOk without the drop of the Command
ExitOk_keeps_handle ==
    /\ pc = "executed"
    /\ exit_code' = 0
    /\ pc' = "exited"
    /\ UNCHANGED <<args, ignore_case, main_run, node, absolute_path, calls, result, stderr, fsChanges, io>>

\* the end of the statement after execute: the temporary Command is dropped,
\* its File with it, and the program ends
ExitOk ==
    /\ pc = "executed"
    /\ open_files' = open_files - 1
    /\ exit_code' = 0
    /\ pc' = "exited"
    /\ UNCHANGED <<args, ignore_case, main_run, node, absolute_path, calls, result, stderr, fsChanges,
                   content, cursor, found, stdout>>

\* another process changes the node while build is between two std::fs calls
FsChange ==
    /\ pc \in {"exists", "canonicalize", "to_str", "open"}
    /\ fsChanges < MaxFsChanges
    /\ \E n \in Nodes \ {node} : node' = n
    /\ fsChanges' = fsChanges + 1
    /\ UNCHANGED <<args, ignore_case, main_run, pc, absolute_path, calls, result, stderr, exit_code, io>>

Next ==
    \/ TryFromIter
    \/ BuildIsFile
    \/ BuildExists
    \/ BuildCanonicalize
    \/ BuildNotAFile
    \/ BuildOpen
    \/ ExitOnError
    \/ Search
    \/ Execute
    \/ SearchReadError
    \/ SearchReportError
    \/ ExitOk
    \/ FsChange

Spec == Init /\ [][Next]_vars

\* ============================================================== main.rs
\* The program entry point: fn main() of src/src/main.rs, which validates
\* and searches by itself.  result records the return site main left by.
Rejected(variant) == [tag |-> "Rejected", variant |-> variant]
Finished == [tag |-> "Executed"]
\* while main runs past the open, result holds its local file
Opened(file) == [tag |-> "Open", file |-> file]

InitMain ==
    /\ args \in ArgLists
    /\ ignore_case \in EnvValues
    /\ node \in Nodes
    /\ pc = "main"
    /\ absolute_path = [ok |-> FALSE, cause |-> "unset"]
    /\ calls = <<>>
    /\ result = NoResult
    /\ stderr = <<>>
    /\ exit_code = -1
    /\ fsChanges = 0
    /\ content = <<>>
    /\ cursor = 0
    /\ found = <<>>
    /\ stdout = <<>>
    /\ open_files = 0
    /\ main_run = NoRun

\* eprintln!(..); return;  main returns (), the process ends with status 0
MainReturn(variant, message) ==
    /\ result' = Rejected(variant)
    /\ stderr' = Append(stderr, message)
    /\ exit_code' = 0
    /\ pc' = "exited"

\* a panic in main: the message goes to the error stream, the status is 101
MainPanic(message) ==
    /\ result' = Panic(message)
    /\ stderr' = Append(stderr, <<"thread 'main' panicked: ", message>>)
    /\ exit_code' = 101
    /\ pc' = "exited"

\* main: the argument count, the blank check, then file_path.is_file()
MainArgs ==
    /\ pc = "main"
    /\ IF Len(args) = 0
       THEN /\ MainPanic("index out of bounds")
            /\ UNCHANGED calls
       ELSE IF Len(args) < 3
       THEN /\ MainReturn("Missing",
                    <<"Missing arguments! Please call the script like: ", args[1],
                      " pattern filename">>)
            /\ UNCHANGED calls
       ELSE IF is_empty(trim(args[2]))
       THEN /\ MainReturn("BlankPattern",
                    <<"Cannot have a blank searched text '", args[2], "'.">>)
            /\ UNCHANGED calls
       ELSE /\ calls' = Append(calls, "is_file")
            /\ pc' = IF is_file(node) THEN "main_open" ELSE "main_exists"
            /\ UNCHANGED <<result, stderr, exit_code>>
    /\ UNCHANGED <<args, ignore_case, main_run, node, absolute_path, fsChanges, io>>

\* main: file_path.exists()
MainExists ==
    /\ pc = "main_exists"
    /\ calls' = Append(calls, "exists")
    /\ IF ~exists(node)
       THEN MainReturn("FileNotFound", <<"The file '", args[3], "' does not exist.">>)
       ELSE /\ pc' = "main_canonicalize"
            /\ UNCHANGED <<result, stderr, exit_code>>
    /\ UNCHANGED <<args, ignore_case, main_run, node, absolute_path, fsChanges, io>>

\* main: file_path.canonicalize()
MainCanonicalize ==
    /\ pc = "main_canonicalize"
    /\ calls' = Append(calls, "canonicalize")
    /\ LET resolved == canonicalize(node, args[3]) IN
       IF ~resolved.ok
       THEN /\ MainReturn("CannotResolvePath",
                    <<"Cannot resolve the path '", args[3],
                      "' to the absolute path, because this error ", resolved.cause, ".">>)
            /\ UNCHANGED absolute_path
       ELSE /\ absolute_path' = resolved
            /\ pc' = "main_is_dir"
            /\ UNCHANGED <<result, stderr, exit_code>>
    /\ UNCHANGED <<args, ignore_case, main_run, node, fsChanges, io>>

\* main: absolute_path.is_dir(), then absolute_path.to_str()
MainIsDir ==
    /\ pc = "main_is_dir"
    /\ calls' = Append(calls, "is_dir")
    /\ LET file_type == IF is_dir(node) THEN "directory" ELSE "unknown" IN
       IF absolute_path.utf8
       THEN MainReturn("NotAFile",
                <<absolute_path.path, " is not a file, it is a ", file_type, ".">>)
       ELSE MainReturn("PathNotConvertible",
                <<"Cannot convert the absolute file path to '", args[3],
                  "' to its string representation.">>)
    /\ UNCHANGED <<args, ignore_case, main_run, node, absolute_path, fsChanges, io>>

\* main: File::open(file_path).unwrap_or_else(|_| panic!(..))
MainOpen ==
    /\ pc = "main_open"
    /\ calls' = Append(calls, "open")
    /\ \E outcome \in OpenOutcomes(node) :
         IF outcome = "ok"
         THEN /\ content' \in OpenedContents(node)
              /\ open_files' = open_files + 1
              /\ result' = Opened([kind |-> node.kind])
              /\ pc' = "main_search"
              /\ UNCHANGED <<stderr, exit_code>>
         ELSE /\ MainPanic("Cannot open the file")
              /\ UNCHANGED <<content, open_files>>
    /\ UNCHANGED <<args, ignore_case, main_run, node, absolute_path, fsChanges, cursor, found, stdout>>

\* main_filter_map numbering the lines from 0
RECURSIVE main_filter_map_from_zero(_, _, _)
main_filter_map_from_zero(file_lines, i, pat) ==
    IF i > Len(file_lines) THEN <<>>
    ELSE LET line == unwrap_or_else(file_lines[i])
         IN  (IF contains(line, pat) THEN << <<i - 1, line>> >> ELSE <<>>)
             \o main_filter_map_from_zero(file_lines, i + 1, pat)

\* main's own .enumerate().filter_map(..) over the lines; i is line_no + 1
RECURSIVE main_filter_map(_, _, _)
main_filter_map(file_lines, i, pat) ==
    IF i > Len(file_lines) THEN <<>>
    ELSE LET line == unwrap_or_else(file_lines[i])
         IN  (IF contains(line, pat) THEN << <<i, line>> >> ELSE <<>>)
             \o main_filter_map(file_lines, i + 1, pat)

\* the eprintln! of main for a line that cannot be read
MainReadDiagnostic(line_no, file_name, error) ==
    <<"Cannot read the line ", line_no + 1, " from the file '", file_name,
      "', because this error ", error, ".">>

RECURSIVE main_diagnostics(_, _, _)
main_diagnostics(file_lines, i, file_name) ==
    IF i > Len(file_lines) THEN <<>>
    ELSE (IF file_lines[i].error # ""
          THEN <<MainReadDiagnostic(i - 1, file_name, file_lines[i].error)>> ELSE <<>>)
         \o main_diagnostics(file_lines, i + 1, file_name)

\* the println! calls of main
main_print(file_name, pat, found_lines) ==
    IF found_lines = <<>>
    THEN << <<"The file '", file_name,
              "' does not contain any line with the pattern '", pat, "'.">> >>
    ELSE << <<"The file '", file_name,
              "' contains these lines with the pattern '", pat, "':">> >>
         \o [k \in 1..Len(found_lines) |->
                <<found_lines[k][1], ": ", found_lines[k][2]>>]

\* main: the scan of the file and the report, then the end of main
MainSearch ==
    /\ pc = "main_search"
    /\ result.file.kind # "dir"
    /\ LET found_lines == main_filter_map(lines(content, cursor), 1, args[2]) IN
        /\ found' = Append(found, found_lines)
        /\ stdout' = stdout \o main_print(args[3], args[2], found_lines)
    /\ stderr' = stderr \o main_diagnostics(lines(content, cursor), 1, args[3])
    /\ cursor' = Len(content)
    /\ open_files' = open_files - 1
    /\ result' = Finished
    /\ exit_code' = 0
    /\ pc' = "exited"
    /\ UNCHANGED <<args, ignore_case, main_run, node, absolute_path, calls, fsChanges, content>>

\* main reading a handle whose every read fails (a directory): no end
MainReadError ==
    /\ pc = "main_search"
    /\ result.file.kind = "dir"
    /\ Len(stderr) < MaxReadErrors
    /\ stderr' = Append(stderr, MainReadDiagnostic(Len(stderr), args[3], "IsADirectory"))
    /\ UNCHANGED <<args, ignore_case, main_run, node, pc, absolute_path, calls, result, exit_code,
                   fsChanges, io>>

\* another process changes the node while main is between two std::fs calls
MainFsChange ==
    /\ pc \in {"main_exists", "main_canonicalize", "main_is_dir", "main_open"}
    /\ fsChanges < MaxFsChanges
    /\ \E n \in Nodes \ {node} : node' = n
    /\ fsChanges' = fsChanges + 1
    /\ UNCHANGED <<args, ignore_case, main_run, pc, absolute_path, calls, result, stderr, exit_code, io>>

NextMain ==
    \/ MainArgs
    \/ MainExists
    \/ MainCanonicalize
    \/ MainIsDir
    \/ MainOpen
    \/ MainSearch
    \/ MainReadError
    \/ MainFsChange

SpecMain == InitMain /\ [][NextMain]_vars

\* ==================================================== the two pipelines
\* fn main() and the Command pipeline run one after the other on the same
\* argument list of three elements and the same path, which no other process
\* changes: main_run keeps how the run of main ended.
InitBoth ==
    /\ InitMain
    /\ Len(args) = 3

\* the run of main is over; the Command pipeline starts on the same inputs
RunCommand ==
    /\ pc = "exited"
    /\ ~main_run.done
    /\ main_run' = [done |-> TRUE, result |-> result, content |-> content,
                    found |-> found, stdout |-> stdout, stderr |-> stderr]
    /\ pc' = "start"
    /\ absolute_path' = [ok |-> FALSE, cause |-> "unset"]
    /\ calls' = <<>>
    /\ result' = NoResult
    /\ stderr' = <<>>
    /\ exit_code' = -1
    /\ content' = <<>>
    /\ cursor' = 0
    /\ found' = <<>>
    /\ stdout' = <<>>
    /\ UNCHANGED <<args, ignore_case, node, fsChanges, open_files>>

NextBoth ==
    \/ MainArgs
    \/ MainExists
    \/ MainCanonicalize
    \/ MainIsDir
    \/ MainOpen
    \/ MainSearch
    \/ RunCommand
    \/ TryFromIter
    \/ BuildIsFile
    \/ BuildExists
    \/ BuildCanonicalize
    \/ BuildNotAFile
    \/ BuildOpen
    \/ ExitOnError
    \/ Execute
    \/ ExitOk

SpecBoth == InitBoth /\ [][NextBoth]_vars

\* ============================================================ properties
Returned == pc \in {"returned", "exited"}
WellFormed == Len(args) = 3
Stable == fsChanges = 0
AllWhitespace(s) == \A i \in 1..Len(s) : s[i] \in Whitespace
IsErr(variant) == result.tag = "Err" /\ result.error.variant = variant

\* C1: a pattern made of whitespace only (or empty) makes build fail with
\* BlankPattern carrying the pattern exactly as given, whatever the path is;
\* build returns at once, so no Command exists and no path check is made.
C1_BlankPatternRejected ==
    (WellFormed /\ AllWhitespace(args[2])) =>
        /\ pc \in {"start", "build", "returned", "exited"}
        /\ Returned =>
            /\ result.tag = "Err"
            /\ result.error.type = "InvalidArgumentError"
            /\ result.error.variant = "BlankPattern"
            /\ result.error.text = args[2]

C1_Witness ==
    /\ pc = "returned"
    /\ WellFormed
    /\ args[2] = <<" ", "\t">>
    /\ IsErr("BlankPattern")
    /\ result.error.text = <<" ", "\t">>

\* C2: build checks pattern, existence, file type, then readability, in this
\* order: the std::fs calls are made in the order is_file, exists,
\* canonicalize, is_dir or is_file, open; a blank pattern is reported before
\* any of them; and on a node no other process changes the result is the
\* one of the first precondition violated.
C2_CallOrder ==
    \/ \E k \in 0..4 : calls = SubSeq(<<"is_file", "exists", "canonicalize", "is_dir">>, 1, k)
    \/ calls = <<"is_file", "open">>

C2_FirstViolated ==
    /\ C2_CallOrder
    /\ (WellFormed /\ Returned /\ AllWhitespace(args[2])) =>
            (IsErr("BlankPattern") /\ calls = <<>>)
    /\ (WellFormed /\ Returned /\ Stable /\ ~AllWhitespace(args[2])) =>
            CASE node.kind = "absent" -> IsErr("FileNotFound")
              [] node.kind \in {"dir", "other"} ->
                    \/ IsErr("CannotResolvePath")
                    \/ IsErr("NotAFile")
                    \/ result.tag = "Panic"
              [] node.kind = "file" /\ ~node.readable -> IsErr("NotAReadableFile")
              [] OTHER -> result.tag = "Ok"

C2_Witness ==
    /\ pc = "returned"
    /\ WellFormed
    /\ args[2] = <<" ">>
    /\ node.kind \in {"absent", "dir"}
    /\ IsErr("BlankPattern")

\* C3: with a non-blank pattern and a path at which nothing exists, build
\* fails with FileNotFound carrying the filename as given, after is_file and
\* exists only: the path is neither canonicalized nor opened.
C3_FileNotFound ==
    /\ (WellFormed /\ Returned /\ Stable /\ ~AllWhitespace(args[2])
            /\ node.kind = "absent") =>
            (IsErr("FileNotFound") /\ result.error.text = args[3])
    /\ IsErr("FileNotFound") =>
            /\ result.error.text = args[3]
            /\ calls = <<"is_file", "exists">>

C3_Witness ==
    /\ pc = "returned"
    /\ Stable
    /\ node.kind = "absent"
    /\ IsErr("FileNotFound")
    /\ result.error.text = <<"d", "f">>

\* C4 as stated: every existing non-regular path that canonicalizes makes
\* build fail with NotAFile.
C4_NotAFileWheneverResolvable ==
    (WellFormed /\ Returned /\ Stable /\ ~AllWhitespace(args[2])
        /\ node.kind \in {"dir", "other"} /\ node.resolvable) =>
        IsErr("NotAFile")

\* C4 (amended): with a non-blank pattern and an existing non-regular path
\* that canonicalizes to a path convertible to a string, build fails with
\* NotAFile carrying the canonical absolute path, not the filename, and the
\* kind "directory" exactly for a directory, "unknown" otherwise.
C4_NotAFile ==
    (WellFormed /\ Returned /\ Stable /\ ~AllWhitespace(args[2])
        /\ node.kind \in {"dir", "other"} /\ node.resolvable /\ node.utf8) =>
        /\ IsErr("NotAFile")
        /\ result.error.text = <<"/">> \o args[3]
        /\ result.error.text # args[3]
        /\ (result.error.detail = "directory") <=> (node.kind = "dir")
        /\ (result.error.detail = "unknown") <=> (node.kind # "dir")

C4_Witness ==
    /\ pc = "returned"
    /\ Stable
    /\ node.kind = "other"
    /\ IsErr("NotAFile")
    /\ result.error.detail = "unknown"
    /\ result.error.text = <<"/", "f">>

\* C5: with a non-blank pattern and an existing non-regular path whose
\* canonicalization fails, build fails with CannotResolvePath carrying the
\* filename as given and the I/O cause, and never with NotAFile.
C5_CannotResolvePath ==
    (WellFormed /\ Returned /\ Stable /\ ~AllWhitespace(args[2])
        /\ node.kind \in {"dir", "other"} /\ ~node.resolvable) =>
        /\ IsErr("CannotResolvePath")
        /\ result.error.text = args[3]
        /\ result.error.detail = "Other"
        /\ calls = <<"is_file", "exists", "canonicalize">>

C5_Witness ==
    /\ pc = "returned"
    /\ Stable
    /\ node.kind = "dir"
    /\ ~node.resolvable
    /\ IsErr("CannotResolvePath")

\* C6: once the path passed the regular-file check, a failing open (no read
\* permission, or the file removed or replaced since the check) makes build
\* fail with NotAReadableFile carrying the filename as given and the cause;
\* open is the last step, and it yields a Command or this error only.
C6_NotAReadableFile ==
    (Returned /\ Len(calls) = 2 /\ calls[2] = "open") =>
        /\ result.tag = "Ok" \/ IsErr("NotAReadableFile")
        /\ (node.kind = "absent" \/ ~node.readable) => IsErr("NotAReadableFile")
        /\ IsErr("NotAReadableFile") =>
            /\ result.error.text = args[3]
            /\ result.error.detail \in {"NotFound", "PermissionDenied", "Other"}
            /\ (node.kind = "absent") <=> (result.error.detail = "NotFound")

C6_Witness ==
    /\ pc = "returned"
    /\ fsChanges = 1
    /\ node.kind = "absent"
    /\ calls = <<"is_file", "open">>
    /\ IsErr("NotAReadableFile")
    /\ result.error.detail = "NotFound"

\* C7 as stated: with a non-blank pattern and a readable regular file build
\* succeeds, and the Command holds the pattern and the filename as given,
\* the case-mode flag, and a handle on the file.
C7_CommandHoldsCaseMode ==
    (WellFormed /\ Returned /\ Stable /\ ~AllWhitespace(args[2])
        /\ node.kind = "file" /\ node.readable) =>
        /\ result.tag = "Ok"
        /\ result.command.pattern = args[2]
        /\ result.command.filename = args[3]
        /\ result.command.file.kind = "file"
        /\ "caseSensitive" \in DOMAIN result.command

\* C8: with an executable name and one or two arguments in all, try_from_iter
\* fails with Missing, with four or more with TooMany; the error carries the
\* executable name and is written as "<Missing|Too many> arguments. Call the
\* script like: <executable> pattern filename".
C8_Arity ==
    (Returned /\ Len(args) >= 1 /\ Len(args) # 3) =>
        /\ result.tag = "Err"
        /\ result.error.type = "InvalidSyntaxError"
        /\ result.error.variant = (IF Len(args) < 3 THEN "Missing" ELSE "TooMany")
        /\ result.error.text = args[1]
        /\ calls = <<>>
        /\ pc = "exited" =>
            stderr = << <<IF Len(args) < 3 THEN "Missing" ELSE "Too many",
                          " arguments. Call the script like: ", args[1],
                          " pattern filename">> >>

C8_Witness ==
    /\ pc = "exited"
    /\ Len(args) = 4
    /\ IsErr("TooMany")
    /\ stderr[1][1] = "Too many"
    /\ stderr[1][3] = <<"m", "g">>

\* C9: with an empty argument list try_from_iter returns no error value: it
\* panics with "Missing the executable name.", and the error handler of the
\* caller never runs.
C9_PanicWithoutExecutable ==
    (args = <<>> /\ pc # "start") =>
        /\ pc = "returned"
        /\ result.tag = "Panic"
        /\ result.msg = "Missing the executable name."
        /\ stderr = <<>>
        /\ exit_code = -1

C9_Witness ==
    /\ args = <<>>
    /\ pc = "returned"
    /\ result.tag = "Panic"

\* C10: the exit code is fixed by the variant of the error alone: Missing
\* 126, TooMany 127, BlankPattern 130, NotAFile 131, FileNotFound 132,
\* CannotResolvePath 133, NotAReadableFile 134; no two variants share a code
\* and no code is 0.
ExitCodeTable ==
    [Missing |-> 126, TooMany |-> 127, BlankPattern |-> 130, NotAFile |-> 131,
     FileNotFound |-> 132, CannotResolvePath |-> 133, NotAReadableFile |-> 134]

SamplePayloads == Patterns \cup Filenames \cup {<<"/">> \o f : f \in Filenames}

C10_ExitCodes ==
    (pc = "exited" /\ result.tag = "Err") =>
        /\ exit_code = ExitCodeTable[result.error.variant]
        /\ exit_code # 0
        /\ \A text \in SamplePayloads, detail \in {"", "directory", "NotFound"} :
              code([result.error EXCEPT !.text = text, !.detail = detail]) = exit_code
        /\ \A v \in DOMAIN ExitCodeTable :
              (ExitCodeTable[v] = exit_code) <=> (v = result.error.variant)

C10_Witness ==
    /\ pc = "exited"
    /\ IsErr("FileNotFound")
    /\ exit_code = 132

\* ------------------------------------------------------- search and execute
\* pat occurs in line at some position, character by character
Occurs(pat, line) ==
    \E i \in 1..Len(line) :
        \A j \in 1..Len(pat) : i + j - 1 <= Len(line) /\ line[i + j - 1] = pat[j]

\* the positions of the lines of the file that were read and contain pat
MatchingLines(pat) ==
    {n \in 1..Len(content) : content[n].error = "" /\ Occurs(pat, content[n].text)}

\* the positions of the lines of the file whose read fails, in order
UnreadableLines ==
    SelectSeq([n \in 1..Len(content) |-> n], LAMBDA n : content[n].error # "")

Searched == result.tag = "Ok" /\ Len(found) >= 1

C14_LineNumbers ==
    Searched =>
        /\ \A c \in 1..Len(found) : \A k \in 1..Len(found[c]) :
              /\ found[c][k][1] >= 1
              /\ found[c][k][1] <= Len(content)
              /\ found[c][k][2] = content[found[c][k][1]].text
              /\ \A m \in 1..Len(found[c]) : k < m => found[c][k][1] < found[c][m][1]
        /\ {found[1][k][1] : k \in 1..Len(found[1])} = MatchingLines(args[2])
        /\ Len(found[1]) = Cardinality(MatchingLines(args[2]))

C14_Witness ==
    /\ Searched
    /\ Len(content) = 2
    /\ Len(found[1]) = 2
    /\ found[1][1][1] = 1
    /\ found[1][2][1] = 2

\* C15 as stated: a second search on the same Command over the unmodified
\* file returns what the first returned.
C15_SearchTwiceSame ==
    (result.tag = "Ok" /\ Len(found) >= 2) => found[2] = found[1]

\* C16: a line whose read fails counts as the empty string, one diagnostic
\* naming its line number (from 1) and the file is written to the error
\* stream for it, and the scan goes on: the lines after it are examined and
\* reported under their own positions.
C16_ReadFailureSkipped ==
    (Searched /\ Len(found) = 1) =>
        /\ Len(stderr) = Len(UnreadableLines)
        /\ \A k \in 1..Len(stderr) :
              stderr[k] = <<"Cannot read the line ", UnreadableLines[k],
                            " from the file '", args[3],
                            "', due to this error ", "InvalidData", ".">>
        /\ \A k \in 1..Len(found[1]) : content[found[1][k][1]].error = ""
        /\ \A n \in MatchingLines(args[2]) :
              \E k \in 1..Len(found[1]) : found[1][k] = <<n, content[n].text>>

C16_Witness ==
    /\ Searched
    /\ Len(found) = 1
    /\ content = <<ErrLine("InvalidData"), OkLine(<<" ", "r", "R">>)>>
    /\ found[1] = << <<2, <<" ", "r", "R">> >> >>
    /\ Len(stderr) = 1
    /\ stderr[1][2] = 1

Executed == pc \in {"executed", "exited"} /\ result.tag = "Ok"

\* what execute prints: one summary line naming the file and the pattern,
\* then one "<n>: <line>" entry per match, in the order of the result
ReportShape ==
    Executed =>
        LET lines_found == found[Len(found)] IN
        /\ Len(stdout) = 1 + Len(lines_found)
        /\ stdout[1][1] = "The file '"
        /\ stdout[1][2] = args[3]
        /\ \A k \in 1..Len(lines_found) :
              stdout[1 + k] = <<lines_found[k][1], ": ", lines_found[k][2]>>
        /\ IF lines_found = <<>>
           THEN /\ stdout[1][3] = "' does not contain any line with the pattern '"
                /\ stdout[1][4] = args[2]
           ELSE /\ stdout[1][3] = "' contains these lines with the pattern '"
                /\ stdout[1][4] = args[2]

\* C19 as stated: execute prints one summary line, then one "<n>: <line>"
\* entry per match in the order of the result; for an empty result the
\* summary is the "does not contain any line" message naming the file, the
\* case mode and the pattern.
C19_SummaryNamesCaseMode ==
    Executed =>
        /\ ReportShape
        /\ found[Len(found)] = <<>> =>
              stdout[1][3] = "' does not contain any line with the case "

\* C20: a validation failure stops the pipeline before any search: no file
\* is opened, no line is read, nothing is written to standard output, and
\* once the failure is reported the error stream holds its message only.
FailureMessageStart ==
    [Missing |-> "Missing", TooMany |-> "Too many",
     BlankPattern |-> "Cannot have a blank searched text '",
     NotAFile |-> "'",
     FileNotFound |-> "The file '",
     CannotResolvePath |-> "Cannot resolve the path ('",
     NotAReadableFile |-> "Cannot open the file '"]

C20_FailureStopsPipeline ==
    result.tag = "Err" =>
        /\ pc \in {"returned", "exited"}
        /\ content = <<>>
        /\ cursor = 0
        /\ found = <<>>
        /\ stdout = <<>>
        /\ pc = "returned" => stderr = <<>>
        /\ pc = "exited" =>
              /\ Len(stderr) = 1
              /\ stderr[1][1] = FailureMessageStart[result.error.variant]

C20_Witness ==
    /\ pc = "exited"
    /\ IsErr("NotAReadableFile")
    /\ stdout = <<>>
    /\ Len(stderr) = 1

\* --------------------------------------------------------------- case mode
\* char::to_lowercase over the characters of the model
LowerChar(c) ==
    CASE c = "R" -> "r"
      [] c = "T" -> "t"
      [] c = "U" -> "u"
      [] c = "E" -> "e"
      [] OTHER -> c
Lower(str) == [i \in 1..Len(str) |-> LowerChar(str[i])]

\* the case mode the environment asks for
IgnoreCaseRequested ==
    /\ ignore_case.present
    /\ Lower(ignore_case.value) \in {<<"1">>, <<"t", "r", "u", "e">>}

\* C13 as stated: in case-insensitive mode a line is matched exactly when
\* its lower-cased text contains the lower-cased pattern, in case-sensitive
\* mode exactly when it contains the pattern as given.
C13_MatchByCaseMode ==
    Searched =>
        \A n \in 1..Len(content) :
            (\E k \in 1..Len(found[1]) : found[1][k][1] = n) <=>
                /\ content[n].error = ""
                /\ IF IgnoreCaseRequested
                   THEN Occurs(Lower(args[2]), Lower(content[n].text))
                   ELSE Occurs(args[2], content[n].text)

\* the result of a scan of the whole file in the given case mode
ExpectedResult(insensitive) ==
    LET hit(n) == /\ content[n].error = ""
                  /\ IF insensitive
                     THEN Occurs(Lower(args[2]), Lower(content[n].text))
                     ELSE Occurs(args[2], content[n].text)
        numbers == SelectSeq([n \in 1..Len(content) |-> n], hit)
    IN  [k \in 1..Len(numbers) |-> <<numbers[k], content[numbers[k]].text>>]

\* C17 as stated: the search is case-insensitive exactly when IGNORE_CASE is
\* present with a value equal to "1" or "true" whatever its case; with any
\* other value, or without the variable, it is case-sensitive.
C17_CaseModeFromEnvironment ==
    Searched =>
        /\ (ignore_case.present /\ ignore_case.value = <<"T", "r", "U", "e">>)
              => found[1] = ExpectedResult(TRUE)
        /\ (ignore_case.present /\ ignore_case.value = <<"0">>)
              => found[1] = ExpectedResult(FALSE)
        /\ ~ignore_case.present => found[1] = ExpectedResult(FALSE)

\* C18 as stated: without IGNORE_CASE the run still validates, searches and
\* reports on standard output, and the diagnostic "Error during the get of
\* the variable 'IGNORE_CASE'. ..." is on the error stream exactly when the
\* variable is absent; with the variable the error stream stays empty.
C18_AbsentVariableDiagnostic ==
    Executed =>
        /\ stdout # <<>>
        /\ ~ignore_case.present <=>
              \E k \in 1..Len(stderr) :
                  stderr[k][1] = "Error during the get of the variable '"
        /\ ignore_case.present => stderr = <<>>

\* ---------------------------------------------------------------- exit code
\* the validation failure a finished run ended with, "" if there was none
FailureOf(r) ==
    IF r.tag = "Err" THEN r.error.variant
    ELSE IF r.tag = "Rejected" THEN r.variant
    ELSE ""

SearchExecuted == found # <<>> /\ stdout # <<>>

\* C11: the process exits with 0 exactly when validation succeeded and the
\* search was executed; a run that ends in a validation failure exits with
\* the non-zero code of that failure.
C11_ExitStatus ==
    pc = "exited" =>
        /\ (exit_code = 0) <=> (FailureOf(result) = "" /\ SearchExecuted)
        /\ FailureOf(result) # "" => exit_code # 0
        /\ FailureOf(result) \in DOMAIN ExitCodeTable =>
              exit_code = ExitCodeTable[FailureOf(result)]

\* ---------------------------------------------------------- error taxonomies
SyntaxVariants == {"Missing", "TooMany"}
ArgumentVariants ==
    {"BlankPattern", "NotAFile", "FileNotFound", "CannotResolvePath", "NotAReadableFile"}

\* C21: a failure of try_from_iter is of exactly one of the two error types,
\* and the argument count alone decides which: with one, two or more than
\* three arguments it is an InvalidSyntaxError (Missing or TooMany) whatever
\* the pattern and the path are, with three arguments it is an
\* InvalidArgumentError.
C21_TaxonomyByArity ==
    /\ result.tag = "Err" =>
          /\ Len(args) >= 1
          /\ result.error.type \in {"InvalidSyntaxError", "InvalidArgumentError"}
          /\ (result.error.type = "InvalidSyntaxError") <=> (Len(args) # 3)
          /\ (result.error.type = "InvalidArgumentError") <=> (Len(args) = 3)
          /\ (result.error.variant \in SyntaxVariants) <=> (Len(args) # 3)
          /\ (result.error.variant \in ArgumentVariants) <=> (Len(args) = 3)
    /\ (Returned /\ Len(args) >= 1 /\ Len(args) # 3) =>
          /\ result.tag = "Err"
          /\ result.error.type = "InvalidSyntaxError"

C21_Witness ==
    /\ pc = "returned"
    /\ Len(args) = 4
    /\ args[2] = <<" ">>
    /\ node.kind = "absent"
    /\ IsErr("TooMany")
    /\ result.error.type = "InvalidSyntaxError"

\* -------------------------------------------------------------- termination
\* The program is one thread that runs on by itself: every step of the
\* pipeline that can be taken is taken.  A direct call of search and a
\* change by another process may or may not happen.
SpecLive ==
    /\ Spec
    /\ WF_vars(TryFromIter)
    /\ WF_vars(BuildIsFile)
    /\ WF_vars(BuildExists)
    /\ WF_vars(BuildCanonicalize)
    /\ WF_vars(BuildNotAFile)
    /\ WF_vars(BuildOpen)
    /\ WF_vars(ExitOnError)
    /\ WF_vars(Execute)
    /\ WF_vars(SearchReadError)
    /\ WF_vars(SearchReportError)
    /\ WF_vars(ExitOk)

Ready == pc = "returned" /\ result.tag = "Ok"

\* C22 as stated: from Ready, execute always reaches its end after finitely
\* many steps, with its summary printed, whatever the handle gives to read.
C22_ExecuteTerminates == Ready ~> (Executed /\ stdout # <<>>)

\* the same for a Command whose handle is not one on a directory
ExecuteTerminatesOnFiles ==
    (Ready /\ result.command.file.kind # "dir") ~> (Executed /\ stdout # <<>>)

\* ------------------------------------------------------------- file handle
\* C23: the file is open exactly while a Command exists: the one handle is
\* acquired by the open that ends a successful validation, no handle is open
\* while validation runs, after a failure or a panic, and the handle is
\* released when the Command is dropped after execute.
C23_HandleLifetime ==
    /\ open_files \in {0, 1}
    /\ (open_files = 1) <=> (result.tag = "Ok" /\ pc # "exited")
    /\ result.tag \in {"None", "Err", "Panic"} => open_files = 0
    /\ open_files = 1 => (Len(calls) = 2 /\ calls[2] = "open")
    /\ pc = "exited" => open_files = 0

C23_Witness ==
    /\ pc = "exited"
    /\ result.tag = "Ok"
    /\ calls = <<"is_file", "open">>
    /\ stdout # <<>>
    /\ open_files = 0

\* ------------------------------------------------------------ state machine
\* the state of the pipeline: validation has returned nothing yet (or has
\* panicked and never will), a Command is ready, execute has returned, or
\* validation has returned an error
Phase ==
    CASE result.tag = "Err" -> "Rejected"
      [] result.tag = "Ok" /\ pc \in {"executed", "exited"} -> "Executed"
      [] result.tag = "Ok" -> "Ready"
      [] OTHER -> "Unvalidated"

PhaseSteps ==
    {<<"Unvalidated", "Ready">>, <<"Ready", "Executed">>, <<"Unvalidated", "Rejected">>}

\* C24: the pipeline moves Unvalidated -> Ready -> Executed or Unvalidated ->
\* Rejected and in no other way, so Rejected and Executed are never left and
\* no state is entered again; execute has run only on a Command that a
\* successful validation returned; a Rejected run carries one error, of one
\* of the two error types, and reports it once.
C24_StateMachine ==
    /\ [][Phase' # Phase => <<Phase, Phase'>> \in PhaseSteps]_vars
    /\ [](stdout # <<>> =>
            /\ result.tag = "Ok"
            /\ calls = <<"is_file", "open">>
            /\ Phase \in {"Executed"})
    /\ [](Phase = "Rejected" =>
            /\ result.error.type \in {"InvalidSyntaxError", "InvalidArgumentError"}
            /\ result.error.variant \in SyntaxVariants \cup ArgumentVariants
            /\ Len(stderr) <= 1
            /\ stdout = <<>>)

C24_Witness ==
    /\ Phase = "Executed"
    /\ pc = "exited"
    /\ Len(found) = 1
    /\ Len(stdout) = 2

\* -------------------------------------------------------------------- races
\* what build returns, before any open, for the path in the one state n
ReportedFor(n) ==
    CASE n.kind = "absent" ->
            /\ IsErr("FileNotFound")
            /\ result.error.text = args[3]
      [] n.kind \in {"dir", "other"} /\ ~n.resolvable ->
            /\ IsErr("CannotResolvePath")
            /\ result.error.text = args[3]
            /\ result.error.detail = "Other"
      [] n.kind \in {"dir", "other"} /\ n.resolvable /\ n.utf8 ->
            /\ IsErr("NotAFile")
            /\ result.error.text = <<"/">> \o args[3]
            /\ result.error.detail = (IF n.kind = "dir" THEN "directory" ELSE "unknown")
      [] n.kind \in {"dir", "other"} /\ n.resolvable /\ ~n.utf8 ->
            result.tag = "Panic"
      [] OTHER -> FALSE

\* C25 as stated: whatever other processes change between the checks that
\* come before the open, build reports an error that it reports for one
\* state of the path, and never NotAFile for a path that is a regular file.
C25_RaceIndependent ==
    (WellFormed /\ Returned /\ ~AllWhitespace(args[2]) /\ result.tag # "Ok"
        /\ ~IsErr("NotAReadableFile")) =>
        /\ \E n \in Nodes : ReportedFor(n)
        /\ IsErr("NotAFile") => node.kind # "file"

\* the same on a path that no other process changes
StableReport ==
    (WellFormed /\ Returned /\ ~AllWhitespace(args[2]) /\ result.tag # "Ok"
        /\ ~IsErr("NotAReadableFile") /\ Stable) =>
        /\ ReportedFor(node)
        /\ IsErr("NotAFile") => node.kind # "file"

\* ------------------------------------------------------------ failed lines
\* C26: a line whose read failed is in no search result: the pattern of a
\* Command is never blank, the empty string that stands for the line does
\* not contain it, and no pair returned carries the number of such a line
\* or an empty text, whatever IGNORE_CASE holds.
C26_FailedLineNeverReturned ==
    result.tag = "Ok" =>
        /\ Len(result.command.pattern) >= 1
        /\ \E i \in 1..Len(result.command.pattern) :
              result.command.pattern[i] \notin {" ", "\t"}
        /\ ~contains(unwrap_or_else(ErrLine("InvalidData")), result.command.pattern)
        /\ \A c \in 1..Len(found) : \A k \in 1..Len(found[c]) :
              /\ content[found[c][k][1]].error = ""
              /\ found[c][k][2] # <<>>

C26_Witness ==
    /\ Searched
    /\ ignore_case.present
    /\ args[2] = <<"R">>
    /\ content = <<OkLine(<<"R">>), ErrLine("InvalidData")>>
    /\ found[1] = << <<1, <<"R">> >> >>
    /\ Len(stderr) = 1

\* ------------------------------------------------------- untrimmed pattern
HasOuterWhitespace(s) ==
    /\ Len(s) >= 1
    /\ s[1] \in {" ", "\t"} \/ s[Len(s)] \in {" ", "\t"}

\* C27: a pattern that is not blank but starts or ends with whitespace is
\* stored as given and matched as given: a line is returned exactly when it
\* contains the pattern with its whitespace, and the summary of execute
\* prints the pattern with its whitespace.
C27_PatternUntrimmed ==
    (result.tag = "Ok" /\ HasOuterWhitespace(args[2])) =>
        /\ result.command.pattern = args[2]
        /\ Len(found) >= 1 =>
              \A n \in 1..Len(content) :
                  (\E k \in 1..Len(found[1]) : found[1][k][1] = n) <=>
                      (content[n].error = "" /\ Occurs(args[2], content[n].text))
        /\ stdout # <<>> => stdout[1][4] = args[2]

C27_Witness ==
    /\ pc = "executed"
    /\ args[2] = <<" ", "R">>
    /\ content = <<OkLine(<<"R">>), OkLine(<<" ", "r", "R">>)>>
    /\ found = << <<>> >>
    /\ stdout[1][4] = <<" ", "R">>

\* ------------------------------------------------------- path not a string
\* C28: for an existing path that is not a regular file and canonicalizes to
\* a path that cannot be converted to a string, build returns neither a
\* Command nor an error: it panics; and a call with three arguments panics
\* in this case only, after canonicalize and before is_dir.
C28_PanicOnUnconvertiblePath ==
    /\ (WellFormed /\ Returned /\ Stable /\ ~AllWhitespace(args[2])
            /\ node.kind \in {"dir", "other"} /\ node.resolvable /\ ~node.utf8) =>
            /\ result.tag = "Panic"
            /\ result.msg = "The absolute path conversion to its string representation fails."
            /\ stderr = <<>>
            /\ exit_code = -1
    /\ (WellFormed /\ result.tag = "Panic") =>
            /\ ~AllWhitespace(args[2])
            /\ absolute_path.ok
            /\ ~absolute_path.utf8
            /\ calls = <<"is_file", "exists", "canonicalize">>
            /\ Stable => (node.kind \in {"dir", "other"} /\ node.resolvable /\ ~node.utf8)
    /\ (WellFormed /\ Returned /\ Stable
            /\ ~(node.kind \in {"dir", "other"} /\ node.resolvable /\ ~node.utf8)) =>
            result.tag \in {"Ok", "Err"}

C28_Witness ==
    /\ pc = "returned"
    /\ WellFormed
    /\ Stable
    /\ node.kind = "dir"
    /\ ~node.utf8
    /\ result.tag = "Panic"

\* ------------------------------------------------------- main and Command
\* the open succeeds if it is reached, and the canonical path is a string
OpenAndConversionSucceed ==
    /\ node.kind = "file" => node.readable
    /\ (node.kind \in {"dir", "other"} /\ node.resolvable) => node.utf8

BothRun == main_run.done /\ pc = "exited"

\* C29: on an argument list of three elements for which the open succeeds
\* and the canonical path is a string, fn main() and the Command pipeline
\* end in the same class (blank pattern, file not found, path not
\* resolvable, not a file of the same kind, or search executed), and over
\* the same file they find and print the same numbered lines in the same
\* order.
C29_MainMatchesCommand ==
    (BothRun /\ OpenAndConversionSucceed) =>
        /\ FailureOf(main_run.result) = FailureOf(result)
        /\ FailureOf(result) \in
              {"", "BlankPattern", "FileNotFound", "CannotResolvePath", "NotAFile"}
        /\ (main_run.result.tag = "Executed") <=> (result.tag = "Ok")
        /\ FailureOf(result) = "NotAFile" =>
              /\ main_run.stderr[1][1] = result.error.text
              /\ main_run.stderr[1][3] = result.error.detail
        /\ result.tag = "Ok" =>
              /\ main_run.content = content
              /\ Len(found) = 1
              /\ main_run.found = found
              /\ main_run.stdout = stdout

C29_Witness ==
    /\ BothRun
    /\ result.tag = "Ok"
    /\ args[2] = <<"R">>
    /\ main_run.content = content
    /\ content = <<OkLine(<<"R">>), OkLine(<<" ", "r", "R">>)>>
    /\ main_run.found = << << <<1, <<"R">> >>, <<2, <<" ", "r", "R">> >> >> >>
    /\ found = main_run.found
    /\ Len(stdout) = 3

====
